---- MODULE Spec2Model ----
(***************************************************************************)
(* RAG-in-a-Box: the PDF chunk extractor (PdfParser) and the per-type      *)
(* summarization dispatcher (MultimodalSummarizer), as state machines.     *)
(*                                                                         *)
(* Optional values (Python's None) are sequences of length 0 or 1.         *)
(* Strings whose characters matter (element text, chunk content, prompts)  *)
(* are sequences of one-character/one-token strings.                       *)
(***************************************************************************)
EXTENDS Integers, Sequences, FiniteSets, TLC

VARIABLES
    disk,            \* the PDF files: path -> the items the engine converts it to
    doc,             \* PdfParser._doc: <<>> (None) or <<converted document>>
    doc_path,        \* PdfParser._doc_path: "None" or a path
    chunks,          \* PdfParser.chunks
    call,            \* the most recent PdfParser call and how it ended
    retChunks,       \* the list the most recent parse / accessor call returned
    retMd,           \* the Markdown the most recent reconstruction returned
    written,         \* the PNG files the most recent call wrote, in order
    tmpFiles,        \* the temporary files that exist
    prompt_templates,\* MultimodalSummarizer.prompt_templates: type -> <<>> or <<path>>
    files,           \* the template files: path -> whether it exists, is readable, its text
    loaded_prompts,  \* MultimodalSummarizer.loaded_prompts: type -> <<>> or <<template>>
    sum              \* the most recent summarize_chunk call and how it ended

vars == <<disk, doc, doc_path, chunks, call, retChunks, retMd, written, tmpFiles,
          prompt_templates, files, loaded_prompts, sum>>

parserVars == <<disk, doc, doc_path, chunks, call, retChunks, retMd, written, tmpFiles>>
summarizerVars == <<prompt_templates, files, loaded_prompts, sum>>

(***************************************************************************)
(* Bounds                                                                  *)
(***************************************************************************)
MaxElems == 2        \* longest document stored under the first path

(***************************************************************************)
(* Documents as the conversion engine hands them over                      *)
(***************************************************************************)
Whitespace == {" "}

\* One element of a converted document: its class, text, provenance (page numbers),
\* the raster its get_image renders and its caption_text.
Elem(kind, text, prov, image, caption) ==
    [kind |-> kind, text |-> text, prov |-> prov, image |-> image, caption |-> caption]

ElemPool ==
    { Elem("TextItem",     <<" ", "x">>, <<1>>, "",     ""),
      Elem("TextItem",     <<" ">>,      <<1>>, "",     ""),
      Elem("TitleItem",    <<"x">>,      <<>>,  "",     ""),
      Elem("TableItem",    <<>>,         <<2>>, "imgT", "Results"),
      Elem("PictureItem",  <<>>,         <<3>>, "imgP", ""),
      Elem("KeyValueItem", <<>>,         <<1>>, "",     "") }

RECURSIVE SeqsUpTo(_, _)
SeqsUpTo(S, n) ==
    IF n = 0 THEN { <<>> }
    ELSE LET shorter == SeqsUpTo(S, n - 1)
         IN  shorter \cup { Append(s, e) : s \in { t \in shorter : Len(t) = n - 1 }, e \in S }

Docs == SeqsUpTo(ElemPool, MaxElems)

\* The document of the second path: one paragraph, one captioned table, one
\* uncaptioned picture, on pages 1, 2, 3.
ExampleDoc ==
    << Elem("TextItem",    <<"x">>, <<1>>, "",     ""),
       Elem("TableItem",   <<>>,    <<2>>, "imgT", "Results"),
       Elem("PictureItem", <<>>,    <<3>>, "imgP", "") >>

Paths == {"a.pdf", "b.pdf"}

stem(path) == IF path = "a.pdf" THEN "a" ELSE "b"

ParserOps == {"parse", "save_tables_as_images", "save_pictures_as_images",
              "reconstruct_to_markdown"}
AccessorOps == {"get_text_chunks", "get_table_chunks", "get_image_chunks"}

(***************************************************************************)
(* base_parser.py                                                          *)
(***************************************************************************)
ChunkType == {"text", "table", "image"}

DocumentChunk(content, type, source_page, metadata) ==
    [content |-> content, type |-> type, source_page |-> source_page,
     metadata |-> metadata]

(***************************************************************************)
(* pdf_parser.py: helpers                                                  *)
(***************************************************************************)
\* PIL's Image.save(buffer, format="PNG"): the PNG bytes of a raster.
PngBytes(image) == <<"PNG", image>>

\* base64.b64encode(...).decode('utf-8')
b64encode(bytes) == <<"b64">> \o bytes

image_to_base64(image) == b64encode(PngBytes(image))

\* str.strip(): leading and trailing whitespace removed.
RECURSIVE lstrip(_)
lstrip(s) ==
    IF s = <<>> THEN <<>>
    ELSE IF Head(s) \in Whitespace THEN lstrip(Tail(s)) ELSE s

RECURSIVE rstrip(_)
rstrip(s) ==
    IF s = <<>> THEN <<>>
    ELSE IF s[Len(s)] \in Whitespace THEN rstrip(SubSeq(s, 1, Len(s) - 1)) ELSE s

strip(s) == rstrip(lstrip(s))

\* `if element.text.strip():` with the strip forgotten
NonBlankUnstripped(text) == text # <<>>

\* `if element.text.strip():`
NonBlank(text) == strip(text) # <<>>

\* page_num = prov_list[0].page_no if prov_list ... else 0
page_num(element) == IF element.prov # <<>> THEN element.prov[1] ELSE 0

\* isinstance(element, (TextItem, TitleItem))
IsTextLike(element) == element.kind \in {"TextItem", "TitleItem"}

IsTable(element) == element.kind = "TableItem"

IsPicture(element) == element.kind = "PictureItem"

\* the documents the engine's convert() returns for a path
Converted(path) == [origin |-> path, items |-> disk[path]]

\* `if self._doc is None:` alone, the path comparison forgotten
NeedsLoadDocOnly(d, dp, path) == d = <<>>

\* `if self._doc is None or self._doc_path != file_path:`
NeedsLoad(d, dp, path) == d = <<>> \/ dp # path

\* _load_and_get_doc: the cache after the call, whether the engine was invoked
\* and whether its convert() raised (convOk: the engine's answer, when asked).
load_and_get_doc(path, convOk) ==
    IF NeedsLoad(doc, doc_path, path)
    THEN IF convOk
         THEN [doc |-> <<Converted(path)>>, doc_path |-> path, engine |-> TRUE,
               raised |-> FALSE]
         ELSE [doc |-> doc, doc_path |-> doc_path, engine |-> TRUE, raised |-> TRUE]
    ELSE [doc |-> doc, doc_path |-> doc_path, engine |-> FALSE, raised |-> FALSE]

\* self.chunks.insert(0, chunk) in place of append
PrependChunk(acc, chunk) == <<chunk>> \o acc

\* self.chunks.append(chunk)
AppendChunk(acc, chunk) == Append(acc, chunk)

\* the reset forgotten: the old list is kept
KeepChunks(old) == old

\* self.chunks = []
ResetChunks(old) == <<>>

\* The chunk of one element (parse's if/elif chain), <<>> when it emits none.
ChunkOfElement(element) ==
    IF IsTextLike(element)
    THEN IF NonBlank(element.text)
         THEN << DocumentChunk(element.text, "text", page_num(element),
                               [key |-> "type", value |-> element.kind]) >>
         ELSE <<>>
    ELSE IF IsTable(element)
    THEN << DocumentChunk(image_to_base64(element.image), "table", page_num(element),
                          [key |-> "caption", value |-> element.caption]) >>
    ELSE IF IsPicture(element)
    THEN << DocumentChunk(image_to_base64(element.image), "image", page_num(element),
                          [key |-> "caption", value |-> element.caption]) >>
    ELSE <<>>

\* parse's loop over doc.iterate_items() from element i on; failAt is the element
\* whose get_image / PNG encoding raises (0: none does).
RECURSIVE ParseLoop(_, _, _, _)
ParseLoop(items, i, failAt, acc) ==
    IF i > Len(items) THEN [chunks |-> acc, raised |-> FALSE]
    ELSE LET element == items[i] IN
         IF (IsTable(element) \/ IsPicture(element)) /\ i = failAt
         THEN [chunks |-> acc, raised |-> TRUE]
         ELSE LET c == ChunkOfElement(element) IN
              ParseLoop(items, i + 1, failAt,
                        IF c # <<>> THEN AppendChunk(acc, c[1]) ELSE acc)

\* --- GETTER METHODS ---
get_text_chunks(cs) == SelectSeq(cs, LAMBDA c : c.type = "text")

get_table_chunks(cs) == SelectSeq(cs, LAMBDA c : c.type = "table")

\* `chunk.type != 'text'` in place of `chunk.type == 'image'`
get_image_chunks_NotText(cs) == SelectSeq(cs, LAMBDA c : c.type # "text")

get_image_chunks(cs) == SelectSeq(cs, LAMBDA c : c.type = "image")

PngName(path, kind, n) == [stem |-> stem(path), kind |-> kind, n |-> n]

\* the counter bumped for every element instead of for the matching ones
CountEvery(counter, matches) == counter + 1

\* `table_counter += 1` / `picture_counter += 1` under the isinstance test
CountMatching(counter, matches) == IF matches THEN counter + 1 ELSE counter

\* The loop of save_tables_as_images / save_pictures_as_images from element i on;
\* failAt is the element whose get_image / image.save raises (0: none does).
RECURSIVE SaveLoop(_, _, _, _, _, _, _)
SaveLoop(items, path, kind, i, failAt, counter, out) ==
    IF i > Len(items) THEN [written |-> out, raised |-> FALSE]
    ELSE LET matches == IF kind = "table" THEN IsTable(items[i]) ELSE IsPicture(items[i])
             n == CountMatching(counter, matches)
         IN  IF matches /\ i = failAt
             THEN [written |-> out, raised |-> TRUE]
             ELSE SaveLoop(items, path, kind, i + 1, failAt, n,
                           IF matches THEN Append(out, PngName(path, kind, n)) ELSE out)

\* doc.save_as_markdown(..., image_mode=EMBEDDED): one piece per element.
MarkdownOfElement(element) ==
    IF IsTextLike(element) THEN <<element.text>>
    ELSE IF IsTable(element) \/ IsPicture(element)
    THEN << <<"![](data:image/png;base64,">> \o image_to_base64(element.image) \o <<")">> >>
    ELSE <<>>

RECURSIVE save_as_markdown(_)
save_as_markdown(items) ==
    IF items = <<>> THEN <<>>
    ELSE MarkdownOfElement(Head(items)) \o save_as_markdown(Tail(items))

TempName == "tmp.md"

\* NamedTemporaryFile(delete=False): the file outlives the with block
CloseTempKeep(tmp, name) == tmp

\* NamedTemporaryFile(delete=True): leaving the with block removes the file
CloseTemp(tmp, name) == tmp \ {name}

(***************************************************************************)
(* pdf_parser.py: the calls                                                *)
(***************************************************************************)
Call(op, path, result, engine, hadChunks, logged) ==
    [op |-> op, path |-> path, result |-> result, engine |-> engine,
     hadChunks |-> hadChunks, logged |-> logged]

NoCall == Call("init", "None", "ok", FALSE, FALSE, FALSE)

\* PdfParser.parse
Parse(path, convOk, failAt) ==
    LET ld == load_and_get_doc(path, convOk) IN
    /\ doc' = ld.doc
    /\ doc_path' = ld.doc_path
    /\ IF ld.raised
       THEN /\ chunks' = chunks
            /\ retChunks' = <<>>
            /\ call' = Call("parse", path, "ConversionError", ld.engine,
                            chunks # <<>>, FALSE)
       ELSE LET r == ParseLoop(ld.doc[1].items, 1, failAt, ResetChunks(chunks)) IN
            /\ chunks' = r.chunks
            /\ retChunks' = IF r.raised THEN <<>> ELSE r.chunks
            /\ call' = Call("parse", path, IF r.raised THEN "RenderError" ELSE "ok",
                            ld.engine, chunks # <<>>, FALSE)
    /\ retMd' = <<>>
    /\ written' = <<>>
    /\ UNCHANGED <<disk, tmpFiles>>

\* PdfParser.get_text_chunks / get_table_chunks / get_image_chunks
GetTextChunks ==
    /\ retChunks' = get_text_chunks(chunks)
    /\ call' = Call("get_text_chunks", "None", "ok", FALSE, chunks # <<>>, FALSE)
    /\ retMd' = <<>>
    /\ written' = <<>>
    /\ UNCHANGED <<disk, doc, doc_path, chunks, tmpFiles>>

GetTableChunks ==
    /\ retChunks' = get_table_chunks(chunks)
    /\ call' = Call("get_table_chunks", "None", "ok", FALSE, chunks # <<>>, FALSE)
    /\ retMd' = <<>>
    /\ written' = <<>>
    /\ UNCHANGED <<disk, doc, doc_path, chunks, tmpFiles>>

GetImageChunks ==
    /\ retChunks' = get_image_chunks(chunks)
    /\ call' = Call("get_image_chunks", "None", "ok", FALSE, chunks # <<>>, FALSE)
    /\ retMd' = <<>>
    /\ written' = <<>>
    /\ UNCHANGED <<disk, doc, doc_path, chunks, tmpFiles>>

\* save_tables_as_images / save_pictures_as_images, which differ in the element
\* class and the word in the file name
SaveAsImages(op, kind, path, convOk, failAt) ==
    LET ld == load_and_get_doc(path, convOk) IN
    /\ doc' = ld.doc
    /\ doc_path' = ld.doc_path
    /\ IF ld.raised
       THEN /\ written' = <<>>
            /\ call' = Call(op, path, "ConversionError", ld.engine, chunks # <<>>, FALSE)
       ELSE LET r == SaveLoop(ld.doc[1].items, path, kind, 1, failAt, 0, <<>>) IN
            /\ written' = r.written
            /\ call' = Call(op, path, IF r.raised THEN "RenderError" ELSE "ok",
                            ld.engine, chunks # <<>>, FALSE)
    /\ retChunks' = <<>>
    /\ retMd' = <<>>
    /\ UNCHANGED <<disk, chunks, tmpFiles>>

SaveTablesAsImages(path, convOk, failAt) ==
    SaveAsImages("save_tables_as_images", "table", path, convOk, failAt)

SavePicturesAsImages(path, convOk, failAt) ==
    SaveAsImages("save_pictures_as_images", "picture", path, convOk, failAt)

\* PdfParser.reconstruct_to_markdown; serOk: whether save_as_markdown succeeds
ReconstructToMarkdown(path, convOk, serOk) ==
    LET ld == load_and_get_doc(path, convOk) IN
    /\ doc' = ld.doc
    /\ doc_path' = ld.doc_path
    /\ IF ld.raised
       THEN /\ tmpFiles' = tmpFiles
            /\ retMd' = <<>>
            /\ call' = Call("reconstruct_to_markdown", path, "ConversionError",
                            ld.engine, chunks # <<>>, FALSE)
       ELSE LET opened == tmpFiles \cup {TempName}
                content == IF serOk THEN save_as_markdown(ld.doc[1].items) ELSE <<>>
            IN  /\ tmpFiles' = CloseTemp(opened, TempName)
                /\ retMd' = IF serOk THEN content ELSE <<>>
                /\ call' = Call("reconstruct_to_markdown", path,
                                IF serOk THEN "ok" ELSE "SerializationError",
                                ld.engine, chunks # <<>>, ~serOk)
    /\ retChunks' = <<>>
    /\ written' = <<>>
    /\ UNCHANGED <<disk, chunks>>

(***************************************************************************)
(* multimodal_summarizer.py                                                *)
(***************************************************************************)
Placeholder == "{text_content}"
ForeignField == "{other}"

\* What a template file may hold: a template with the placeholder, one without
\* any replacement field, and one with a field format() is given no value for.
TemplateTexts ==
    { <<"Summarize this text:", Placeholder>>,
      <<"Describe the content.">>,
      <<"Summarize", ForeignField, Placeholder>> }

TemplatePath(type) == type \o ".txt"
TemplatePaths == { TemplatePath(t) : t \in ChunkType }

File(exists, readable, content) ==
    [exists |-> exists, readable |-> readable, content |-> content]

MissingFile == File(FALSE, FALSE, <<>>)

FileStates ==
    { MissingFile, File(TRUE, FALSE, <<>>) } \cup { File(TRUE, TRUE, t) : t \in TemplateTexts }

FallbackNotFound == <<"Summarize the following content as best as possible:">>
FallbackUnreadable == <<"Summarize the following content:">>

\* a _load_prompt that lets the missing template raise instead of falling back
load_prompt_raising(prompt_type) ==
    IF loaded_prompts[prompt_type] # <<>>
    THEN [template |-> loaded_prompts[prompt_type][1], cache |-> loaded_prompts,
          source |-> "cache", raised |-> FALSE, logged |-> FALSE]
    ELSE LET prompt_path == prompt_templates[prompt_type] IN
         IF prompt_path = <<>> \/ ~files[prompt_path[1]].exists
            \/ ~files[prompt_path[1]].readable
         THEN [template |-> <<>>, cache |-> loaded_prompts,
               source |-> "none", raised |-> TRUE, logged |-> FALSE]
         ELSE [template |-> files[prompt_path[1]].content,
               cache |-> [loaded_prompts EXCEPT ![prompt_type] =
                                                  <<files[prompt_path[1]].content>>],
               source |-> "file", raised |-> FALSE, logged |-> FALSE]

\* MultimodalSummarizer._load_prompt: the template, the cache after the call,
\* where the template came from and whether an error was logged.
load_prompt(prompt_type) ==
    IF loaded_prompts[prompt_type] # <<>>
    THEN [template |-> loaded_prompts[prompt_type][1], cache |-> loaded_prompts,
          source |-> "cache", raised |-> FALSE, logged |-> FALSE]
    ELSE LET prompt_path == prompt_templates[prompt_type] IN
         IF prompt_path = <<>> \/ ~files[prompt_path[1]].exists
         THEN [template |-> FallbackNotFound, cache |-> loaded_prompts,
               source |-> "fallback", raised |-> FALSE, logged |-> TRUE]
         ELSE IF files[prompt_path[1]].readable
         THEN [template |-> files[prompt_path[1]].content,
               cache |-> [loaded_prompts EXCEPT ![prompt_type] =
                                                  <<files[prompt_path[1]].content>>],
               source |-> "file", raised |-> FALSE, logged |-> FALSE]
         ELSE [template |-> FallbackUnreadable, cache |-> loaded_prompts,
               source |-> "fallback", raised |-> FALSE, logged |-> TRUE]

\* str.format(text_content=...): every {text_content} replaced by the content,
\* a KeyError for a field no value is given for.
FormatRaises(template) == \E i \in 1 .. Len(template) : template[i] = ForeignField

RECURSIVE format(_, _)
format(template, text_content) ==
    IF template = <<>> THEN <<>>
    ELSE (IF Head(template) = Placeholder THEN text_content ELSE <<Head(template)>>)
         \o format(Tail(template), text_content)

\* chunk.metadata.get("caption")
metadata_get(metadata, key) == IF metadata.key = key THEN metadata.value ELSE ""

CaptionSuffix(caption) == <<"\nAdditional caption context: '", caption, "'">>

\* The prompt summarize_chunk builds from the template (lines 77-83).
BuildPrompt(chunk, prompt_template) ==
    IF chunk.type = "text"
    THEN format(prompt_template, chunk.content)
    ELSE LET caption == metadata_get(chunk.metadata, "caption") IN
         IF caption # "" THEN prompt_template \o CaptionSuffix(caption)
         ELSE prompt_template

\* images_b64 = [chunk.content] if chunk.type in ('image', 'table') else None
ImagesB64(chunk) == IF chunk.type \in {"image", "table"} THEN <<chunk.content>> ELSE <<>>

\* The chunks handed to the summarizer: those of the example document.
SumChunks == { ChunkOfElement(ExampleDoc[i])[1] : i \in 1 .. Len(ExampleDoc) }

\* What the LLM client may answer; "raise" stands for its raising.
Responses == {"a summary", "", "raise"}

Sum(op, chunk, source, prompt, images, client_calls, response, result, ret, logged) ==
    [op |-> op, chunk |-> chunk, source |-> source, prompt |-> prompt,
     images |-> images, client_calls |-> client_calls, response |-> response,
     result |-> result, ret |-> ret, logged |-> logged]

NoSum == Sum("init", <<>>, "none", <<>>, <<>>, 0, "", "ok", "", FALSE)

\* MultimodalSummarizer.summarize_chunk
SummarizeChunk(chunk, response) ==
    LET lp == load_prompt(chunk.type) IN
    /\ loaded_prompts' = lp.cache
    /\ sum' = IF lp.raised
              THEN Sum("summarize_chunk", <<chunk>>, lp.source, <<>>, <<>>, 0, "",
                       "TemplateError", "", lp.logged)
              ELSE IF chunk.type = "text" /\ FormatRaises(lp.template)
              THEN Sum("summarize_chunk", <<chunk>>, lp.source, <<>>,
                       ImagesB64(chunk), 0, "", "FormatError", "", lp.logged)
              ELSE Sum("summarize_chunk", <<chunk>>, lp.source,
                       BuildPrompt(chunk, lp.template), ImagesB64(chunk), 1, response,
                       IF response = "raise" THEN "LLMError" ELSE "ok",
                       IF response = "raise" THEN "" ELSE response, lp.logged)
    /\ UNCHANGED <<prompt_templates, files>>

(***************************************************************************)
(* The parser's specification                                              *)
(***************************************************************************)
InitSummarizerIdle ==
    /\ prompt_templates = [t \in ChunkType |-> <<>>]
    /\ files = [p \in TemplatePaths |-> MissingFile]
    /\ loaded_prompts = [t \in ChunkType |-> <<>>]
    /\ sum = NoSum

Init ==
    /\ disk \in { [p \in Paths |-> IF p = "a.pdf" THEN d ELSE ExampleDoc] : d \in Docs }
    /\ doc = <<>>
    /\ doc_path = "None"
    /\ chunks = <<>>
    /\ call = NoCall
    /\ retChunks = <<>>
    /\ retMd = <<>>
    /\ written = <<>>
    /\ tmpFiles = {}
    /\ InitSummarizerIdle

\* The elements whose rendering can raise (those that are rendered), and 0 for
\* a call in which none does.
FailPoints(path) ==
    {0} \cup { i \in 1 .. Len(disk[path]) : IsTable(disk[path][i]) \/ IsPicture(disk[path][i]) }

\* What the engine may answer; it is asked only when the cache misses.
EngineAnswers(path) == IF NeedsLoad(doc, doc_path, path) THEN BOOLEAN ELSE {TRUE}

Next ==
    \/ \E path \in Paths :
         \E convOk \in EngineAnswers(path), failAt \in FailPoints(path) :
            /\ Parse(path, convOk, failAt)
            /\ UNCHANGED summarizerVars
    \/ GetTextChunks /\ UNCHANGED summarizerVars
    \/ GetTableChunks /\ UNCHANGED summarizerVars
    \/ GetImageChunks /\ UNCHANGED summarizerVars
    \/ \E path \in Paths :
         \E convOk \in EngineAnswers(path), failAt \in FailPoints(path) :
            /\ SaveTablesAsImages(path, convOk, failAt)
            /\ UNCHANGED summarizerVars
    \/ \E path \in Paths :
         \E convOk \in EngineAnswers(path), failAt \in FailPoints(path) :
            /\ SavePicturesAsImages(path, convOk, failAt)
            /\ UNCHANGED summarizerVars
    \/ \E path \in Paths :
         \E convOk \in EngineAnswers(path), serOk \in BOOLEAN :
            /\ ReconstructToMarkdown(path, convOk, serOk)
            /\ UNCHANGED summarizerVars

Spec == Init /\ [][Next]_vars

(***************************************************************************)
(* The summarizer's specification                                          *)
(***************************************************************************)
InitParserIdle ==
    /\ disk = [p \in Paths |-> ExampleDoc]
    /\ doc = <<>>
    /\ doc_path = "None"
    /\ chunks = <<>>
    /\ call = NoCall
    /\ retChunks = <<>>
    /\ retMd = <<>>
    /\ written = <<>>
    /\ tmpFiles = {}

\* A type has no configured path, or a path whose file is in any of the states.
InitSum ==
    /\ prompt_templates \in [ChunkType -> { <<>> } \cup { <<p>> : p \in TemplatePaths }]
    /\ \A t \in ChunkType : prompt_templates[t] \in { <<>>, <<TemplatePath(t)>> }
    /\ files \in [TemplatePaths -> FileStates]
    /\ \A t \in ChunkType : prompt_templates[t] = <<>> => files[TemplatePath(t)] = MissingFile
    /\ loaded_prompts = [t \in ChunkType |-> <<>>]
    /\ sum = NoSum
    /\ InitParserIdle

NextSum ==
    \E chunk \in SumChunks, response \in Responses :
        /\ SummarizeChunk(chunk, response)
        /\ UNCHANGED parserVars

SpecSum == InitSum /\ [][NextSum]_vars

(***************************************************************************)
(* What the claims speak of, stated apart from the operators above         *)
(***************************************************************************)
IsBlankText(s) == \A i \in 1 .. Len(s) : s[i] \in Whitespace

\* An element that must yield a chunk: a text or title with non-blank text, a
\* table, a picture.
Emits(e) ==
    \/ e.kind \in {"TextItem", "TitleItem"} /\ ~IsBlankText(e.text)
    \/ e.kind \in {"TableItem", "PictureItem"}

ExpectedPage(e) == IF Len(e.prov) > 0 THEN e.prov[1] ELSE 0

\* The chunk an emitting element must yield.
ExpectedChunk(e) ==
    IF e.kind \in {"TextItem", "TitleItem"}
    THEN [content |-> e.text, type |-> "text", source_page |-> ExpectedPage(e),
          metadata |-> [key |-> "type", value |-> e.kind]]
    ELSE [content |-> <<"b64", "PNG", e.image>>,
          type |-> IF e.kind = "TableItem" THEN "table" ELSE "image",
          source_page |-> ExpectedPage(e),
          metadata |-> [key |-> "caption", value |-> e.caption]]

RECURSIVE ExpectedChunks(_)
ExpectedChunks(items) ==
    IF items = <<>> THEN <<>>
    ELSE (IF Emits(Head(items)) THEN <<ExpectedChunk(Head(items))>> ELSE <<>>)
         \o ExpectedChunks(Tail(items))

\* cs is made from the emitting elements of items, one chunk each, in their order.
ReadingOrder(cs, items) ==
    \E f \in [1 .. Len(cs) -> 1 .. Len(items)] :
        /\ \A i, j \in 1 .. Len(cs) : i < j => f[i] < f[j]
        /\ \A i \in 1 .. Len(cs) :
              Emits(items[f[i]]) /\ cs[i] = ExpectedChunk(items[f[i]])
        /\ { f[i] : i \in 1 .. Len(cs) } = { j \in 1 .. Len(items) : Emits(items[j]) }

InSeq(x, s) == \E i \in 1 .. Len(s) : s[i] = x

\* s is t with some of its entries left out.
RECURSIVE IsSubseq(_, _)
IsSubseq(s, t) ==
    IF s = <<>> THEN TRUE
    ELSE IF t = <<>> THEN FALSE
    ELSE IF Head(s) = Head(t) THEN IsSubseq(Tail(s), Tail(t))
    ELSE IsSubseq(s, Tail(t))

Contains(p, c) ==
    \E i \in 1 .. (Len(p) - Len(c) + 1) : SubSeq(p, i, i + Len(c) - 1) = c

ParseReturned == call.op = "parse" /\ call.result = "ok"

(***************************************************************************)
(* C1: the conversion engine is invoked on a call of parse, of an export   *)
(* or of the reconstruction if and only if no document is cached or the    *)
(* requested path differs from the path of the last successful conversion, *)
(* so a call right after a successful call for the same path never invokes *)
(* it; and every call that gets past the conversion holds, and returns the *)
(* result of, the document converted for the path it was given.            *)
(***************************************************************************)
C1_EngineInvokedIffCacheMiss ==
    [][ call'.op \in ParserOps =>
          /\ call'.engine <=> (doc = <<>> \/ doc_path # call'.path)
          /\ (call.op \in ParserOps /\ call.result = "ok" /\ call.path = call'.path)
                => ~call'.engine
          /\ call'.result # "ConversionError" =>
                /\ doc' = << [origin |-> call'.path, items |-> disk[call'.path]] >>
                /\ doc_path' = call'.path
          /\ (call'.op = "parse" /\ call'.result = "ok") =>
                retChunks' = ExpectedChunks(disk[call'.path])
       ]_vars

\* a reconstruction served from the cache that another path's conversion filled
\* after the first path's
C1_Witness ==
    /\ call.op = "reconstruct_to_markdown"
    /\ call.result = "ok"
    /\ ~call.engine
    /\ call.path = "a.pdf"
    /\ chunks # <<>>
    /\ chunks = ExpectedChunks(disk["b.pdf"])
    /\ chunks # ExpectedChunks(disk["a.pdf"])

(***************************************************************************)
(* C2: the list parse returns preserves reading order: its chunks come     *)
(* from the emitting elements of the document, one chunk per element, in   *)
(* the order of the document's iteration, interleaved and not grouped by   *)
(* type.                                                                   *)
(***************************************************************************)
C2_ReadingOrderPreserved ==
    ParseReturned => ReadingOrder(retChunks, doc[1].items)

C2_Witness ==
    /\ ParseReturned
    /\ Len(retChunks) = 2
    /\ retChunks[1].type = "table"
    /\ retChunks[2].type = "text"

(***************************************************************************)
(* C3: the list held and returned by parse is exactly the extraction of    *)
(* the document just parsed, never a concatenation with the chunks held    *)
(* before the call.                                                        *)
(***************************************************************************)
C3_ParseReplacesChunks ==
    ParseReturned =>
        /\ chunks = ExpectedChunks(disk[call.path])
        /\ retChunks = chunks

C3_Witness ==
    /\ ParseReturned
    /\ call.hadChunks
    /\ ~call.engine
    /\ chunks # <<>>

(***************************************************************************)
(* C4: an operation that raises in the middle of the document leaves no    *)
(* partial output: the held chunk list is no partial prefix of the         *)
(* document's chunks and no PNG file has been written.                     *)
(***************************************************************************)
C4_NoPartialOutputOnError ==
    call.result = "RenderError" =>
        /\ call.op = "parse" => chunks = <<>>
        /\ written = <<>>

(***************************************************************************)
(* C5: an export that returns has written as many PNG files as parse       *)
(* produces chunks of that kind for the same document, named with the      *)
(* document's stem, the kind and the numbers 1..n in order, tables and     *)
(* pictures counted independently; with no matching element nothing is     *)
(* written and rendering cannot fail.                                      *)
(***************************************************************************)
C5_ExportCountsMatchChunks ==
    LET parsed == ParseLoop(disk[call.path], 1, 0, <<>>).chunks
        n == IF call.op = "save_tables_as_images"
             THEN Len(get_table_chunks(parsed)) ELSE Len(get_image_chunks(parsed))
        kind == IF call.op = "save_tables_as_images" THEN "table" ELSE "picture"
    IN  call.op \in {"save_tables_as_images", "save_pictures_as_images"} =>
          /\ call.result = "ok" =>
               written = [i \in 1 .. n |->
                            [stem |-> stem(call.path), kind |-> kind, n |-> i]]
          /\ n = 0 => written = <<>> /\ call.result # "RenderError"

\* the picture of the example document is its third element and its first picture
C5_Witness ==
    /\ call.op = "save_pictures_as_images"
    /\ call.result = "ok"
    /\ call.path = "b.pdf"
    /\ written = << [stem |-> "b", kind |-> "picture", n |-> 1] >>

(***************************************************************************)
(* C6: no held chunk of type text has empty or whitespace-only content;    *)
(* after a parse the text chunks carry, untrimmed and in order, the texts  *)
(* of the text and title elements that are not blank, so a blank element   *)
(* adds no chunk.                                                          *)
(***************************************************************************)
C6_NoBlankTextChunk ==
    /\ \A i \in 1 .. Len(chunks) :
          chunks[i].type = "text" => ~IsBlankText(chunks[i].content)
    /\ ParseReturned =>
          LET kept == SelectSeq(doc[1].items,
                                LAMBDA e : e.kind \in {"TextItem", "TitleItem"}
                                           /\ ~IsBlankText(e.text))
              texts == get_text_chunks(chunks)
          IN  /\ Len(texts) = Len(kept)
              /\ \A i \in 1 .. Len(kept) : texts[i].content = kept[i].text

C6_Witness ==
    /\ ParseReturned
    /\ \E i \in 1 .. Len(doc[1].items) :
          doc[1].items[i].kind = "TextItem" /\ doc[1].items[i].text = <<" ">>
    /\ Len(chunks) = 1
    /\ chunks[1].content = <<" ", "x">>

TemplateUnavailable(type) ==
    \/ prompt_templates[type] = <<>>
    \/ ~files[prompt_templates[type][1]].exists
    \/ ~files[prompt_templates[type][1]].readable

(***************************************************************************)
(* C7: when the chunk's type has no configured template path, or the       *)
(* template file is missing or unreadable, summarize_chunk does not raise  *)
(* because of the template: the failure is logged, the prompt starts with  *)
(* a generic fallback instruction, the LLM client is invoked exactly once  *)
(* and its answer is returned as it is.                                    *)
(***************************************************************************)
C7_FallbackOnMissingTemplate ==
    (sum.op = "summarize_chunk" /\ TemplateUnavailable(sum.chunk[1].type)) =>
        /\ sum.result \in {"ok", "LLMError"}
        /\ sum.client_calls = 1
        /\ sum.logged
        /\ Len(sum.prompt) >= 1
        /\ <<sum.prompt[1]>> \in {FallbackNotFound, FallbackUnreadable}
        /\ sum.result = "LLMError" <=> sum.response = "raise"
        /\ sum.result = "ok" => sum.ret = sum.response

C7_Witness ==
    /\ sum.op = "summarize_chunk"
    /\ sum.chunk[1].type = "table"
    /\ prompt_templates["table"] # <<>>
    /\ files[prompt_templates["table"][1]].exists
    /\ ~files[prompt_templates["table"][1]].readable
    /\ sum.result = "ok"
    /\ sum.ret = "a summary"

TextTemplateWellFormed ==
    LET p == prompt_templates["text"] IN
    (p # <<>> /\ files[p[1]].exists /\ files[p[1]].readable) =>
        InSeq(Placeholder, files[p[1]].content)

(***************************************************************************)
(* C8: for every text chunk, whichever way the template was resolved       *)
(* (file, cache or fallback; a template file for text holding the          *)
(* placeholder), the prompt handed to the LLM client contains the chunk's  *)
(* raw text and no image payload is passed.                                *)
(***************************************************************************)
C8_TextAlwaysInPrompt ==
    (/\ sum.op = "summarize_chunk"
     /\ sum.chunk[1].type = "text"
     /\ sum.client_calls = 1
     /\ TextTemplateWellFormed) =>
        /\ Contains(sum.prompt, sum.chunk[1].content)
        /\ sum.images = <<>>

(***************************************************************************)
(* C9: when reconstruct_to_markdown returns or raises, its temporary file  *)
(* no longer exists; a serialization failure is logged and raised to the   *)
(* caller; and a successful call on the cached document returns the same   *)
(* Markdown as the successful call before it.                              *)
(***************************************************************************)
C9_TempFileAlwaysRemoved ==
    /\ [](/\ tmpFiles = {}
          /\ call.op = "reconstruct_to_markdown" =>
                /\ call.logged <=> call.result = "SerializationError"
                /\ call.result # "ok" => retMd = <<>>)
    /\ [][ (/\ call.op = "reconstruct_to_markdown" /\ call.result = "ok"
            /\ call'.op = "reconstruct_to_markdown" /\ call'.result = "ok"
            /\ ~call'.engine)
           => retMd' = retMd ]_vars

C9_Witness ==
    /\ call.op = "reconstruct_to_markdown"
    /\ call.result = "SerializationError"
    /\ call.logged
    /\ doc # <<>>
    /\ tmpFiles = {}

AccessorsPartitionChunks ==
    LET texts == get_text_chunks(chunks)
        tables == get_table_chunks(chunks)
        images == get_image_chunks(chunks)
    IN  /\ Len(texts) + Len(tables) + Len(images) = Len(chunks)
        /\ \A i \in 1 .. Len(chunks) :
              /\ InSeq(chunks[i], texts) \/ InSeq(chunks[i], tables)
                 \/ InSeq(chunks[i], images)
              /\ ~(InSeq(chunks[i], texts) /\ InSeq(chunks[i], tables))
              /\ ~(InSeq(chunks[i], texts) /\ InSeq(chunks[i], images))
              /\ ~(InSeq(chunks[i], tables) /\ InSeq(chunks[i], images))
        /\ IsSubseq(texts, chunks)
        /\ IsSubseq(tables, chunks)
        /\ IsSubseq(images, chunks)
        /\ call.op = "get_text_chunks" => retChunks = texts
        /\ call.op = "get_table_chunks" => retChunks = tables
        /\ call.op = "get_image_chunks" => retChunks = images

(***************************************************************************)
(* C10: the three accessors partition the held chunk list: every chunk is  *)
(* in exactly one of the three results, each result keeps the chunks'      *)
(* relative order, and an accessor call returns its result and leaves the  *)
(* held list unchanged.                                                    *)
(***************************************************************************)
C10_AccessorsPartition ==
    /\ []AccessorsPartitionChunks
    /\ [][ call'.op \in AccessorOps => chunks' = chunks ]_vars

C10_Witness ==
    /\ call.op = "get_image_chunks"
    /\ Len(chunks) = 3
    /\ Len(retChunks) = 1
    /\ retChunks[1] = chunks[3]
    /\ chunks[1].type = "text"
    /\ chunks[2].type = "table"

====
